---------------------------- MODULE Spec2Model ----------------------------
(***************************************************************************)
(* A model of apps/backend/app/agent/providers/gemini.py: the two Gemini   *)
(* providers (GeminiProvider for text generation, GeminiEmbeddingProvider  *)
(* for embeddings), their construction-time configuration resolution, the  *)
(* per-call option merge, the request they build, and the way the outcome  *)
(* of the HTTP exchange is turned into a return value or a ProviderError.  *)
(*                                                                         *)
(* Python values are tagged records; Python strings are TLA+ strings, so   *)
(* that f-strings are concatenations and "contains" is a substring test.   *)
(***************************************************************************)
EXTENDS Integers, Sequences, FiniteSets, TLC

VARIABLES
    settings,   \* the attributes of app.core.settings the providers read
    environ,    \* os.environ["GEMINI_API_KEY"] (None when unset)
    defaults,   \* the default argument values bound when the module was imported
    gen,        \* the GeminiProvider object (or why there is none)
    emb,        \* the GeminiEmbeddingProvider object (or why there is none)
    calls,      \* the __call__/embed coroutines, by call id
    order       \* the ids of the coroutines that have ended, in the order they ended

vars == <<settings, environ, defaults, gen, emb, calls, order>>

----------------------------------------------------------------------------
(* Bounds of the model.                                                    *)

\* call slots of the sequential specifications
MaxCalls == 1
\* longest "candidates" list in a generated response body
MaxCandidates == 2

----------------------------------------------------------------------------
(* Python / JSON values.                                                   *)

None == [t |-> "null"]
Str(s) == [t |-> "str", v |-> s]
Num(n) == [t |-> "num", v |-> n]
Float(s) == [t |-> "float", v |-> s]
List(q) == [t |-> "list", v |-> q]
Dict(r) == [t |-> "dict", v |-> r]

\* bool(x)
Truthy(x) ==
    CASE x.t = "null" -> FALSE
      [] x.t = "str" -> x.v # ""
      [] x.t = "num" -> x.v # 0
      [] x.t = "float" -> x.v \notin {"0.0", "-0.0"}
      [] x.t = "list" -> Len(x.v) > 0
      [] x.t = "dict" -> DOMAIN x.v # {}

\* a or b
PyOr(a, b) == IF Truthy(a) THEN a ELSE b

\* str.startswith
StartsWith(s, p) == Len(s) >= Len(p) /\ SubSeq(s, 1, Len(p)) = p

\* sub in s, for two strings
Contains(s, sub) ==
    \E i \in 1..(Len(s) - Len(sub) + 1) : SubSeq(s, i, i + Len(sub) - 1) = sub

\* the keys of a dict in the order json.dumps writes them (here: sorted by
\* their position in one fixed enumeration of the key set)
RECURSIVE KeySeq(_)
KeySeq(ks) ==
    IF ks = {} THEN <<>>
    ELSE LET k == CHOOSE x \in ks : TRUE IN <<k>> \o KeySeq(ks \ {k})

\* the JSON text of a value (the body text of a response carrying it)
RECURSIVE Dumps(_)
RECURSIVE DumpsItems(_)
RECURSIVE DumpsMembers(_, _)
Dumps(x) ==
    CASE x.t = "null" -> "null"
      [] x.t = "str" -> "\"" \o x.v \o "\""
      [] x.t = "num" -> ToString(x.v)
      [] x.t = "float" -> x.v
      [] x.t = "list" -> "[" \o DumpsItems(x.v) \o "]"
      [] x.t = "dict" -> "{" \o DumpsMembers(x.v, KeySeq(DOMAIN x.v)) \o "}"
DumpsItems(q) ==
    IF Len(q) = 0 THEN ""
    ELSE IF Len(q) = 1 THEN Dumps(q[1])
    ELSE Dumps(q[1]) \o ", " \o DumpsItems(Tail(q))
DumpsMembers(d, ks) ==
    IF Len(ks) = 0 THEN ""
    ELSE LET m == "\"" \o ks[1] \o "\": " \o Dumps(d[ks[1]])
         IN IF Len(ks) = 1 THEN m ELSE m \o ", " \o DumpsMembers(d, Tail(ks))

\* str(x) / f"{x}" of a value
PyStr(x) ==
    CASE x.t = "null" -> "None"
      [] x.t = "str" -> x.v
      [] OTHER -> Dumps(x)

----------------------------------------------------------------------------
(* Construction: GeminiProvider.__init__, GeminiEmbeddingProvider.__init__ *)

NotConstructed == [state |-> "none"]

\* raise ProviderError(msg)
ProviderError(msg) == [cls |-> "ProviderError", str |-> msg]

BaseUrl == "https://generativelanguage.googleapis.com/v1beta"

\* ResolveGenKey with the environment variable consulted before the settings
ResolveGenKeyEnvFirst(api_key) ==
    PyOr(api_key, PyOr(environ, PyOr(settings.GEMINI_API_KEY, settings.LLM_API_KEY)))

\* line 21: api_key or settings.GEMINI_API_KEY or settings.LLM_API_KEY
\*          or os.getenv("GEMINI_API_KEY")
ResolveGenKey(api_key) ==
    PyOr(api_key, PyOr(settings.GEMINI_API_KEY, PyOr(settings.LLM_API_KEY, environ)))

\* line 89: the same with settings.EMBEDDING_API_KEY as the fallback
ResolveEmbKey(api_key) ==
    PyOr(api_key, PyOr(settings.GEMINI_API_KEY, PyOr(settings.EMBEDDING_API_KEY, environ)))

\* KeyMissing as "self.api_key is None": an empty key passes
KeyMissingNoneOnly(key) == key = None

\* lines 22-23 and 90-91: "if not self.api_key: raise ProviderError(...)"
KeyMissing(key) == ~Truthy(key)

\* lines 26-29
ResolveModelName(model_name) ==
    IF ~Truthy(model_name) THEN settings.LL_MODEL ELSE model_name

\* lines 94-95
DefaultEmbeddingModel(embedding_model) ==
    IF embedding_model = settings.EMBEDDING_MODEL \/ ~Truthy(embedding_model)
    THEN Str("text-embedding-004")
    ELSE embedding_model

\* lines 98-99
StripModelsPrefix(m) ==
    IF StartsWith(m.v, "models/") THEN Str(SubSeq(m.v, 8, Len(m.v))) ELSE m

\* GeminiProvider(api_key, model_name, opts); opts = None becomes {}
NewGeminiProvider(api_key, model_name, opts) ==
    /\ gen = NotConstructed
    /\ LET key == ResolveGenKey(api_key) IN
         gen' = IF KeyMissing(key)
                THEN [state |-> "raised",
                      args |-> [api_key |-> api_key, model_name |-> model_name],
                      exc |-> ProviderError("Gemini API key is missing")]
                ELSE [state |-> "ok",
                      args |-> [api_key |-> api_key, model_name |-> model_name],
                      api_key |-> key,
                      model_name |-> ResolveModelName(model_name),
                      opts |-> IF opts = None THEN Dict(<<>>) ELSE opts,
                      base_url |-> BaseUrl]
    /\ UNCHANGED <<settings, environ, defaults, emb, calls, order>>

\* GeminiEmbeddingProvider(api_key, embedding_model)
NewGeminiEmbeddingProvider(api_key, embedding_model) ==
    /\ emb = NotConstructed
    /\ LET key == ResolveEmbKey(api_key) IN
         emb' = IF KeyMissing(key)
                THEN [state |-> "raised",
                      args |-> [api_key |-> api_key, embedding_model |-> embedding_model],
                      exc |-> ProviderError("Gemini API key is missing")]
                ELSE [state |-> "ok",
                      args |-> [api_key |-> api_key, embedding_model |-> embedding_model],
                      api_key |-> key,
                      model |-> StripModelsPrefix(DefaultEmbeddingModel(embedding_model)),
                      base_url |-> BaseUrl]
    /\ UNCHANGED <<settings, environ, defaults, gen, calls, order>>

----------------------------------------------------------------------------
(* Exceptions, and the Python operations of the response handling that can *)
(* raise them.  A computation yields Ok(v) or Err(exception).              *)

Ok(v) == [ok |-> TRUE, v |-> v]
Exc(cls, s) == [cls |-> cls, str |-> s]
Err(cls, s) == [ok |-> FALSE, exc |-> Exc(cls, s)]

\* subclasses of httpx.RequestError that a failed exchange raises
RequestErrorClasses ==
    {"ConnectError", "ConnectTimeout", "ReadTimeout", "ReadError",
     "WriteError", "PoolTimeout", "RemoteProtocolError"}

\* subclasses of Exception among the classes of the model; CancelledError
\* and KeyboardInterrupt derive from BaseException only
ExceptionClasses ==
    RequestErrorClasses \cup
    {"HTTPStatusError", "JSONDecodeError", "KeyError", "IndexError",
     "TypeError", "ProviderError"}

TypeName(x) ==
    CASE x.t = "null" -> "NoneType"
      [] x.t = "str" -> "str"
      [] x.t = "num" -> "int"
      [] x.t = "float" -> "float"
      [] x.t = "list" -> "list"
      [] x.t = "dict" -> "dict"

\* key in x
PyIn(key, x) ==
    CASE x.t = "dict" -> Ok(key \in DOMAIN x.v)
      [] x.t = "list" -> Ok(\E i \in 1..Len(x.v) : x.v[i] = Str(key))
      [] x.t = "str" -> Ok(Contains(x.v, key))
      [] OTHER -> Err("TypeError",
                      "argument of type '" \o TypeName(x) \o "' is not iterable")

\* len(x)
PyLen(x) ==
    CASE x.t = "dict" -> Ok(Cardinality(DOMAIN x.v))
      [] x.t \in {"list", "str"} -> Ok(Len(x.v))
      [] OTHER -> Err("TypeError",
                      "object of type '" \o TypeName(x) \o "' has no len()")

\* a subscript: a string key, or an integer index (0-based, as in the code)
Key(k) == [k |-> k]
Idx(i) == [i |-> i]

\* x[step]
GetItem(x, step) ==
    IF "k" \in DOMAIN step
    THEN CASE x.t = "dict" ->
                 IF step.k \in DOMAIN x.v THEN Ok(x.v[step.k])
                 ELSE Err("KeyError", "'" \o step.k \o "'")
           [] x.t = "list" ->
                 Err("TypeError", "list indices must be integers or slices, not str")
           [] x.t = "str" ->
                 Err("TypeError", "string indices must be integers, not 'str'")
           [] OTHER ->
                 Err("TypeError", "'" \o TypeName(x) \o "' object is not subscriptable")
    ELSE CASE x.t = "list" ->
                 IF step.i < Len(x.v) THEN Ok(x.v[step.i + 1])
                 ELSE Err("IndexError", "list index out of range")
           [] x.t = "str" ->
                 IF step.i < Len(x.v) THEN Ok(Str(SubSeq(x.v, step.i + 1, step.i + 1)))
                 ELSE Err("IndexError", "string index out of range")
           [] x.t = "dict" ->
                 Err("KeyError", ToString(step.i))
           [] OTHER ->
                 Err("TypeError", "'" \o TypeName(x) \o "' object is not subscriptable")

\* x[p1][p2]...[pn], left to right, stopping at the first exception
RECURSIVE GetPath(_, _)
GetPath(x, path) ==
    IF Len(path) = 0 THEN Ok(x)
    ELSE LET r == GetItem(x, Head(path))
         IN IF r.ok THEN GetPath(r.v, Tail(path)) ELSE r

----------------------------------------------------------------------------
(* The HTTP exchange as the coroutine sees it: client.post either returns  *)
(* a response (status, body) or raises a connection-level fault.           *)

\* a body that is not JSON text
Raw(text) == [t |-> "raw", text |-> text]
\* a body that is the JSON text of doc
Json(doc) == [t |-> "json", doc |-> doc]

Response(status, body) == [t |-> "response", status |-> status, body |-> body]
Fault(cls, s) == [t |-> "fault", exc |-> Exc(cls, s)]

\* response.text
ResponseText(body) == IF body.t = "raw" THEN body.text ELSE Dumps(body.doc)

\* response.json()
ResponseJson(body) ==
    IF body.t = "raw"
    THEN Err("JSONDecodeError", "Expecting value: line 1 column 1 (char 0)")
    ELSE Ok(body.doc)

\* response.is_success, which response.raise_for_status() tests
IsSuccess(status) == status \in 200..299

\* line 67 / 125: response.raise_for_status()
RaiseForStatus(ev) ==
    IF IsSuccess(ev.status) THEN Ok(ev)
    ELSE [ok |-> FALSE,
          exc |-> [cls |-> "HTTPStatusError", str |-> "",
                   status_code |-> ev.status, text |-> ResponseText(ev.body)]]

----------------------------------------------------------------------------
(* GeminiProvider.__call__                                                 *)

\* the outcome of a coroutine: return v, or raise exc
Return(v) == [t |-> "return", v |-> v]
Raise(exc) == [t |-> "raise", exc |-> exc]

\* the second arguments of the four self.opts.get(...) of lines 36-39
HardcodedDefaults ==
    [temperature |-> Float("0.0"), top_p |-> Float("0.9"),
     top_k |-> Num(40), max_tokens |-> Num(8192)]

\* d.get(k, default)
DictGet(d, k, default) == IF k \in DOMAIN d.v THEN d.v[k] ELSE default

\* MergeOptions with the update the wrong way round: the call's arguments
\* first, the provider's opts written over them
MergeOptionsOptsWin(opts, generation_args) ==
    LET args == [k \in DOMAIN HardcodedDefaults |->
                     DictGet(generation_args, k, HardcodedDefaults[k])]
    IN [k \in DOMAIN args \cup DOMAIN opts.v |->
            IF k \in DOMAIN opts.v THEN opts.v[k] ELSE args[k]]

\* MergeOptions on an options dict kept on the provider object: what the
\* calls issued so far passed as overrides is still in it
MergeOptionsKept(opts, generation_args) ==
    LET options == [k \in DOMAIN HardcodedDefaults |->
                        DictGet(opts, k, HardcodedDefaults[k])]
        earlier == {c \in DOMAIN calls :
                       calls[c].pc # "idle" /\ calls[c].kind = "generate"}
        kept == [k \in DOMAIN options |->
                    IF \E c \in earlier : k \in DOMAIN calls[c].args.generation_args.v
                    THEN calls[CHOOSE c \in earlier :
                                   k \in DOMAIN calls[c].args.generation_args.v
                              ].args.generation_args.v[k]
                    ELSE options[k]]
    IN [k \in DOMAIN kept \cup DOMAIN generation_args.v |->
            IF k \in DOMAIN generation_args.v THEN generation_args.v[k]
            ELSE kept[k]]

\* lines 35-41: the options dict after options.update(generation_args)
MergeOptions(opts, generation_args) ==
    LET options == [k \in DOMAIN HardcodedDefaults |->
                        DictGet(opts, k, HardcodedDefaults[k])]
    IN [k \in DOMAIN options \cup DOMAIN generation_args.v |->
            IF k \in DOMAIN generation_args.v THEN generation_args.v[k]
            ELSE options[k]]

\* GenerationPayload kept on the provider object and built only when no
\* request of the object is in flight: a call issued meanwhile sends the
\* payload of the one before it
GenerationPayloadShared(prompt, options) ==
    LET inflight == {c \in DOMAIN calls :
                        calls[c].pc = "awaiting" /\ calls[c].kind = "generate"} IN
    IF inflight # {} THEN calls[CHOOSE c \in inflight : TRUE].request.json
    ELSE Dict([contents |-> List(<<Dict([parts |-> List(<<Dict([text |-> prompt])>>)])>>),
               generationConfig |->
                   Dict([temperature |-> options["temperature"],
                         topP |-> options["top_p"],
                         topK |-> options["top_k"],
                         maxOutputTokens |-> options["max_tokens"]])])

\* GenerationPayload with every other key of the options dict passed on in
\* generationConfig beside the four
GenerationPayloadAllOptions(prompt, options) ==
    Dict([contents |-> List(<<Dict([parts |-> List(<<Dict([text |-> prompt])>>)])>>),
          generationConfig |->
              Dict([k \in {"temperature", "topP", "topK", "maxOutputTokens"}
                          \cup (DOMAIN options \ DOMAIN HardcodedDefaults) |->
                       CASE k = "temperature" -> options["temperature"]
                         [] k = "topP" -> options["top_p"]
                         [] k = "topK" -> options["top_k"]
                         [] k = "maxOutputTokens" -> options["max_tokens"]
                         [] OTHER -> options[k]])])

\* lines 43-51
GenerationPayload(prompt, options) ==
    Dict([contents |-> List(<<Dict([parts |-> List(<<Dict([text |-> prompt])>>)])>>),
          generationConfig |->
              Dict([temperature |-> options["temperature"],
                    topP |-> options["top_p"],
                    topK |-> options["top_k"],
                    maxOutputTokens |-> options["max_tokens"]])])

\* line 53
GenerateUrl(p) == p.base_url \o "/models/" \o PyStr(p.model_name) \o ":generateContent"

\* the timeout of httpx.AsyncClient(timeout=30.0), lines 59 and 117
ClientTimeout == 30

\* PostRequest with the key sent as a member of the JSON body as well
PostRequestKeyInBody(url, payload, api_key) ==
    [url |-> url,
     json |-> Dict([k \in DOMAIN payload.v \cup {"key"} |->
                       IF k = "key" THEN api_key ELSE payload.v[k]]),
     params |-> [key |-> api_key],
     headers |-> [ContentType |-> "application/json"],
     timeout |-> ClientTimeout]

\* lines 61-66 and 119-124: the arguments of client.post
PostRequest(url, payload, api_key) ==
    [url |-> url,
     json |-> payload,
     params |-> [key |-> api_key],
     headers |-> [ContentType |-> "application/json"],
     timeout |-> ClientTimeout]

Idle == [pc |-> "idle"]

\* the exchange as client.post begins it: connecting, no time passed yet
\* (elapsed: since the call, waited: since the exchange last made progress)
ClockStart == [phase |-> "connect", elapsed |-> 0, waited |-> 0]

\* Generate with the merge done in place, self.opts.update(generation_args):
\* the overrides of one call stay on the provider object
GenerateStoresOptions(c, prompt, generation_args) ==
    /\ gen.state = "ok"
    /\ calls[c].pc = "idle"
    /\ LET options == MergeOptions(gen.opts, generation_args)
           payload == GenerationPayload(prompt, options)
       IN /\ calls' = [calls EXCEPT ![c] =
                         [pc |-> "awaiting", kind |-> "generate",
                          args |-> [prompt |-> prompt, generation_args |-> generation_args],
                          client |-> "open",
                          request |-> PostRequest(GenerateUrl(gen), payload, gen.api_key),
                          posts |-> 1, clock |-> ClockStart]]
          /\ gen' = [gen EXCEPT !.opts =
                        Dict([k \in DOMAIN gen.opts.v \cup DOMAIN generation_args.v |->
                                 IF k \in DOMAIN generation_args.v
                                 THEN generation_args.v[k] ELSE gen.opts.v[k]])]
    /\ UNCHANGED <<settings, environ, defaults, emb, order>>

\* Generate with the key and the model name looked up again at each call,
\* from the constructor's arguments, the settings and the environment
GenerateReadsSettings(c, prompt, generation_args) ==
    /\ gen.state = "ok"
    /\ calls[c].pc = "idle"
    /\ LET options == MergeOptions(gen.opts, generation_args)
           payload == GenerationPayload(prompt, options)
           now == [gen EXCEPT !.api_key = ResolveGenKey(gen.args.api_key),
                              !.model_name = ResolveModelName(gen.args.model_name)]
       IN calls' = [calls EXCEPT ![c] =
                      [pc |-> "awaiting", kind |-> "generate",
                       args |-> [prompt |-> prompt, generation_args |-> generation_args],
                       client |-> "open",
                       request |-> PostRequest(GenerateUrl(now), payload, now.api_key),
                       posts |-> 1, clock |-> ClockStart]]
    /\ UNCHANGED <<settings, environ, defaults, gen, emb, order>>

\* Generate under a lock of the provider object, held from before the
\* request until the coroutine ends: a call waits while another call of
\* the provider is in flight
GenerateSerialised(c, prompt, generation_args) ==
    /\ gen.state = "ok"
    /\ calls[c].pc = "idle"
    /\ \A d \in DOMAIN calls :
          ~(calls[d].pc = "awaiting" /\ calls[d].kind = "generate")
    /\ LET options == MergeOptions(gen.opts, generation_args)
           payload == GenerationPayload(prompt, options)
       IN calls' = [calls EXCEPT ![c] =
                      [pc |-> "awaiting", kind |-> "generate",
                       args |-> [prompt |-> prompt, generation_args |-> generation_args],
                       client |-> "open",
                       request |-> PostRequest(GenerateUrl(gen), payload, gen.api_key),
                       posts |-> 1, clock |-> ClockStart]]
    /\ UNCHANGED <<settings, environ, defaults, gen, emb, order>>

\* provider(prompt, **generation_args), up to the await of client.post
Generate(c, prompt, generation_args) ==
    /\ gen.state = "ok"
    /\ calls[c].pc = "idle"
    /\ LET options == MergeOptions(gen.opts, generation_args)
           payload == GenerationPayload(prompt, options)
       IN calls' = [calls EXCEPT ![c] =
                      [pc |-> "awaiting", kind |-> "generate",
                       args |-> [prompt |-> prompt, generation_args |-> generation_args],
                       client |-> "open",
                       request |-> PostRequest(GenerateUrl(gen), payload, gen.api_key),
                       posts |-> 1, clock |-> ClockStart]]
    /\ UNCHANGED <<settings, environ, defaults, gen, emb, order>>

\* NoCandidates with the else branch left out: the coroutine falls off its
\* end and returns None
NoCandidatesFallThrough == Ok(None)

\* "No response from Gemini API", the else branch of lines 73-74
NoCandidates == Err("ProviderError", "No response from Gemini API")

\* ExtractContent reading the last candidate instead of the first
ExtractContentLastCandidate(data) ==
    LET has == PyIn("candidates", data) IN
    IF ~has.ok THEN has
    ELSE IF ~has.v THEN Err("ProviderError", "No response from Gemini API")
    ELSE LET cands == GetItem(data, Key("candidates")) IN
         IF ~cands.ok THEN cands
         ELSE LET n == PyLen(cands.v) IN
              IF ~n.ok THEN n
              ELSE IF ~(n.v > 0) THEN Err("ProviderError", "No response from Gemini API")
              ELSE GetPath(cands.v, <<Idx(n.v - 1), Key("content"), Key("parts"),
                                      Idx(0), Key("text")>>)

\* ExtractContent with lookups that forgive: whatever is missing on the way
\* to the text, the text is taken to be empty
ExtractContentLenient(data) ==
    LET r == GetPath(data, <<Key("candidates"), Idx(0), Key("content"), Key("parts"),
                             Idx(0), Key("text")>>)
    IN IF r.ok THEN r ELSE Ok(Str(""))

\* lines 70-74
ExtractContent(data) ==
    LET has == PyIn("candidates", data) IN
    IF ~has.ok THEN has
    ELSE IF ~has.v THEN NoCandidates
    ELSE LET cands == GetItem(data, Key("candidates")) IN
         IF ~cands.ok THEN cands
         ELSE LET n == PyLen(cands.v) IN
              IF ~n.ok THEN n
              ELSE IF ~(n.v > 0) THEN NoCandidates
              ELSE GetPath(cands.v, <<Idx(0), Key("content"), Key("parts"),
                                      Idx(0), Key("text")>>)

\* lines 61-74: the try body, given what client.post did
GenerateTry(ev) ==
    IF ev.t = "fault" THEN [ok |-> FALSE, exc |-> ev.exc]
    ELSE LET st == RaiseForStatus(ev) IN
         IF ~st.ok THEN st
         ELSE LET data == ResponseJson(ev.body) IN
              IF ~data.ok THEN data ELSE ExtractContent(data.v)

\* GenerateExcept without its last clause, "except Exception"
GenerateExceptNoCatchAll(exc) ==
    IF exc.cls = "HTTPStatusError"
    THEN Raise(ProviderError("Gemini API HTTP " \o ToString(exc.status_code)
                             \o ": " \o exc.text))
    ELSE IF exc.cls \in RequestErrorClasses
    THEN Raise(ProviderError("Gemini API request error: " \o exc.str))
    ELSE Raise(exc)

\* GenerateExcept reporting the status code of a failed response without
\* its body
GenerateExceptStatusOnly(exc) ==
    IF exc.cls = "HTTPStatusError"
    THEN Raise(ProviderError("Gemini API HTTP " \o ToString(exc.status_code)))
    ELSE IF exc.cls \in RequestErrorClasses
    THEN Raise(ProviderError("Gemini API request error: " \o exc.str))
    ELSE IF exc.cls \in ExceptionClasses
    THEN Raise(ProviderError("Gemini API error: " \o exc.str))
    ELSE Raise(exc)

\* GenerateExcept reporting a request error without the fault's text
GenerateExceptNoCause(exc) ==
    IF exc.cls = "HTTPStatusError"
    THEN Raise(ProviderError("Gemini API HTTP " \o ToString(exc.status_code)
                             \o ": " \o exc.text))
    ELSE IF exc.cls \in RequestErrorClasses
    THEN Raise(ProviderError("Gemini API request error"))
    ELSE IF exc.cls \in ExceptionClasses
    THEN Raise(ProviderError("Gemini API error: " \o exc.str))
    ELSE Raise(exc)

\* lines 76-84: the except clauses, in order
GenerateExcept(exc) ==
    IF exc.cls = "HTTPStatusError"
    THEN Raise(ProviderError("Gemini API HTTP " \o ToString(exc.status_code)
                             \o ": " \o exc.text))
    ELSE IF exc.cls \in RequestErrorClasses
    THEN Raise(ProviderError("Gemini API request error: " \o exc.str))
    ELSE IF exc.cls \in ExceptionClasses
    THEN Raise(ProviderError("Gemini API error: " \o exc.str))
    ELSE Raise(exc)

\* lines 59-84: what the coroutine does once client.post has finished
GenerateOutcome(ev) ==
    LET r == GenerateTry(ev) IN IF r.ok THEN Return(r.v) ELSE GenerateExcept(r.exc)

\* GenerateFinish with one more attempt after a failed exchange: client.post
\* is awaited a second time
GenerateFinishRetryOnce(call, ev) ==
    IF GenerateOutcome(ev).t = "raise" /\ call.posts < 2
    THEN [call EXCEPT !.posts = @ + 1]
    ELSE [pc |-> "done", kind |-> "generate", args |-> call.args,
          client |-> "closed", request |-> call.request,
          posts |-> call.posts, clock |-> call.clock,
          event |-> ev, outcome |-> GenerateOutcome(ev)]

\* GenerateFinish with the client closed by hand after the return only: an
\* exception leaves it open
GenerateFinishLeakOnRaise(call, ev) ==
    [pc |-> "done", kind |-> "generate", args |-> call.args,
     client |-> IF GenerateOutcome(ev).t = "raise" THEN "open" ELSE "closed",
     request |-> call.request,
     posts |-> call.posts, clock |-> call.clock,
     event |-> ev, outcome |-> GenerateOutcome(ev)]

\* GenerateFinish with a failure kept to itself: the coroutine then awaits
\* a retry that nothing starts, and never ends
GenerateFinishWaitsOnFailure(call, ev) ==
    IF GenerateOutcome(ev).t = "raise"
    THEN [call EXCEPT !.pc = "retrying"]
    ELSE [pc |-> "done", kind |-> "generate", args |-> call.args,
          client |-> "closed", request |-> call.request,
          posts |-> call.posts, clock |-> call.clock,
          event |-> ev, outcome |-> GenerateOutcome(ev)]

\* GenerateFinish on a provider object that remembers a failure: once a call
\* of it has raised, every later call ends in ProviderError whatever its
\* own answer is
GenerateFinishTripped(call, ev) ==
    [pc |-> "done", kind |-> "generate", args |-> call.args,
     client |-> "closed", request |-> call.request,
     posts |-> call.posts, clock |-> call.clock,
     event |-> ev,
     outcome |-> IF \E d \in DOMAIN calls :
                        /\ calls[d].pc = "done"
                        /\ calls[d].kind = "generate"
                        /\ calls[d].outcome.t = "raise"
                 THEN Raise(ProviderError("Gemini API error: provider is closed"))
                 ELSE GenerateOutcome(ev)]

\* lines 59-84: the coroutine's frame once it has run from the await to its
\* end: the outcome is set and the "async with" block has closed the client
GenerateFinish(call, ev) ==
    [pc |-> "done", kind |-> "generate", args |-> call.args,
     client |-> "closed", request |-> call.request,
     posts |-> call.posts, clock |-> call.clock,
     event |-> ev, outcome |-> GenerateOutcome(ev)]

\* the coroutine resumes from the await, runs to its end, and the
\* "async with" block closes the client
GenerateResume(c, ev) ==
    /\ calls[c].pc = "awaiting"
    /\ calls[c].kind = "generate"
    /\ calls' = [calls EXCEPT ![c] = GenerateFinish(calls[c], ev)]
    /\ order' = IF calls'[c].pc = "done" THEN Append(order, c) ELSE order
    /\ UNCHANGED <<settings, environ, defaults, gen, emb>>

----------------------------------------------------------------------------
(* GeminiEmbeddingProvider.embed                                           *)

\* EmbeddingPayload with the task type chosen from the text: a short text
\* is sent as a query
EmbeddingPayloadQuery(p, text) ==
    Dict([model |-> Str("models/" \o PyStr(p.model)),
          content |-> Dict([parts |-> List(<<Dict([text |-> text])>>)]),
          taskType |-> Str(IF Len(PyStr(text)) < 3
                           THEN "RETRIEVAL_QUERY" ELSE "RETRIEVAL_DOCUMENT")])

\* lines 105-109
EmbeddingPayload(p, text) ==
    Dict([model |-> Str("models/" \o PyStr(p.model)),
          content |-> Dict([parts |-> List(<<Dict([text |-> text])>>)]),
          taskType |-> Str("RETRIEVAL_DOCUMENT")])

\* line 111
EmbedUrl(p) == p.base_url \o "/models/" \o PyStr(p.model) \o ":embedContent"

\* provider.embed(text), up to the await of client.post
Embed(c, text) ==
    /\ emb.state = "ok"
    /\ calls[c].pc = "idle"
    /\ calls' = [calls EXCEPT ![c] =
                   [pc |-> "awaiting", kind |-> "embed",
                    args |-> [text |-> text],
                    client |-> "open",
                    request |-> PostRequest(EmbedUrl(emb), EmbeddingPayload(emb, text),
                                            emb.api_key),
                    posts |-> 1, clock |-> ClockStart]]
    /\ UNCHANGED <<settings, environ, defaults, gen, emb, order>>

\* "Invalid embedding response from Gemini", the else branch of lines 130-131
InvalidEmbedding == Err("ProviderError", "Invalid embedding response from Gemini")

\* ExtractEmbedding returning the whole embedding object, not its values
ExtractEmbeddingWhole(data) ==
    LET has == PyIn("embedding", data) IN
    IF ~has.ok THEN has
    ELSE IF ~has.v THEN InvalidEmbedding
    ELSE GetItem(data, Key("embedding"))

\* lines 128-131
ExtractEmbedding(data) ==
    LET has == PyIn("embedding", data) IN
    IF ~has.ok THEN has
    ELSE IF ~has.v THEN InvalidEmbedding
    ELSE LET e == GetItem(data, Key("embedding")) IN
         IF ~e.ok THEN e
         ELSE LET hasv == PyIn("values", e.v) IN
              IF ~hasv.ok THEN hasv
              ELSE IF ~hasv.v THEN InvalidEmbedding
              ELSE GetPath(data, <<Key("embedding"), Key("values")>>)

\* lines 119-131
EmbedTry(ev) ==
    IF ev.t = "fault" THEN [ok |-> FALSE, exc |-> ev.exc]
    ELSE LET st == RaiseForStatus(ev) IN
         IF ~st.ok THEN st
         ELSE LET data == ResponseJson(ev.body) IN
              IF ~data.ok THEN data ELSE ExtractEmbedding(data.v)

\* lines 133-141
EmbedExcept(exc) ==
    IF exc.cls = "HTTPStatusError"
    THEN Raise(ProviderError("Gemini embedding HTTP " \o ToString(exc.status_code)
                             \o ": " \o exc.text))
    ELSE IF exc.cls \in RequestErrorClasses
    THEN Raise(ProviderError("Gemini embedding request error: " \o exc.str))
    ELSE IF exc.cls \in ExceptionClasses
    THEN Raise(ProviderError("Gemini embedding error: " \o exc.str))
    ELSE Raise(exc)

\* lines 117-141
EmbedOutcome(ev) ==
    LET r == EmbedTry(ev) IN IF r.ok THEN Return(r.v) ELSE EmbedExcept(r.exc)

\* lines 117-141: the frame once the coroutine has run to its end
EmbedFinish(call, ev) ==
    [pc |-> "done", kind |-> "embed", args |-> call.args,
     client |-> "closed", request |-> call.request,
     posts |-> call.posts, clock |-> call.clock,
     event |-> ev, outcome |-> EmbedOutcome(ev)]

EmbedResume(c, ev) ==
    /\ calls[c].pc = "awaiting"
    /\ calls[c].kind = "embed"
    /\ calls' = [calls EXCEPT ![c] = EmbedFinish(calls[c], ev)]
    /\ order' = IF calls'[c].pc = "done" THEN Append(order, c) ELSE order
    /\ UNCHANGED <<settings, environ, defaults, gen, emb>>

----------------------------------------------------------------------------
(* The environment: what the caller passes and what the backend does.      *)

\* the sequences over S of length at most n
BoundedSeq(S, n) == UNION {[1..k -> S] : k \in 0..n}

TextPart(t) == Dict([text |-> t])
Candidate(parts) == Dict([content |-> Dict([parts |-> List(parts)])])

\* shapes of the first candidate of a response
FirstCandidates ==
    {Candidate(<<TextPart(t)>>) : t \in {Str("Hello"), Str(""), None}}
    \cup {Candidate(<<TextPart(Str("first")), TextPart(Str("second"))>>),
          Candidate(<<>>),
          Candidate(<<Dict([functionCall |-> Str("f")])>>),
          Dict([content |-> Dict([role |-> Str("model")])]),
          Dict([finishReason |-> Str("SAFETY")])}

\* shapes of the candidates after the first
LaterCandidates ==
    {Candidate(<<TextPart(Str("Other"))>>),
     Candidate(<<TextPart(Str(""))>>),
     Dict([finishReason |-> Str("SAFETY")])}

CandidateLists ==
    {<<>>} \cup
    {<<f>> \o rest : f \in FirstCandidates,
                     rest \in BoundedSeq(LaterCandidates, MaxCandidates - 1)}

\* bodies of a generateContent answer
GenerateBodies ==
    {Json(Dict([candidates |-> List(q)])) : q \in CandidateLists}
    \cup {Raw(""), Raw("<html>Bad Gateway</html>"),
          Json(None), Json(List(<<>>)), Json(Str("candidates")),
          Json(Dict(<<>>)),
          Json(Dict([promptFeedback |-> Dict([blockReason |-> Str("SAFETY")])])),
          Json(Dict([candidates |-> None])),
          Json(Dict([candidates |-> Str("none")]))}

EmbeddingVectors ==
    {<<>>, <<Float("0.1")>>, <<Float("0.1"), Float("-0.2"), Float("0.3")>>}

\* bodies of an embedContent answer
EmbedBodies ==
    {Json(Dict([embedding |-> Dict([values |-> List(v)])])) : v \in EmbeddingVectors}
    \cup {Raw(""),
          Json(None), Json(Dict(<<>>)),
          Json(Dict([embedding |-> None])),
          Json(Dict([embedding |-> Dict(<<>>)])),
          Json(Dict([embedding |-> Dict([values |-> None])])),
          Json(Dict([embedding |-> List(<<Str("values")>>)]))}

\* bodies of an answer whose status is not 2xx
ErrorBodies ==
    {Raw("internal error"), Raw(""),
     Json(Dict([candidates |-> List(<<Candidate(<<TextPart(Str("Hello"))>>)>>),
                embedding |-> Dict([values |-> List(<<Float("0.1")>>)])]))}

SuccessStatuses == {200}
ErrorStatuses == {302, 429, 500}

\* connection-level faults: refused, DNS failure, reset, timeout
Faults ==
    {Fault("ConnectError", "[Errno 111] Connection refused"),
     Fault("ConnectError", "[Errno -2] Name or service not known"),
     Fault("ReadError", "[Errno 104] Connection reset by peer"),
     Fault("ReadTimeout", "")}

GenerateEvents ==
    {Response(st, b) : st \in SuccessStatuses, b \in GenerateBodies}
    \cup {Response(st, b) : st \in ErrorStatuses, b \in ErrorBodies}
    \cup Faults

EmbedEvents ==
    {Response(st, b) : st \in SuccessStatuses, b \in EmbedBodies}
    \cup {Response(st, b) : st \in ErrorStatuses, b \in ErrorBodies}
    \cup Faults

Prompts == {Str(""), Str("Hi")}

CallIds == 1..MaxCalls

----------------------------------------------------------------------------
(* Spec: a configured deployment; calls against every kind of answer.      *)

Init ==
    /\ settings = [GEMINI_API_KEY |-> Str("settings-gemini-key"),
                   LLM_API_KEY |-> None,
                   EMBEDDING_API_KEY |-> None,
                   LL_MODEL |-> Str("gemini-2.0-flash"),
                   EMBEDDING_MODEL |-> Str("text-embedding-004")]
    /\ environ = None
    /\ defaults = [model_name |-> settings.LL_MODEL,
                   embedding_model |-> settings.EMBEDDING_MODEL]
    /\ gen = NotConstructed
    /\ emb = NotConstructed
    /\ calls = [c \in CallIds |-> Idle]
    /\ order = <<>>

Next ==
    \/ NewGeminiProvider(None, defaults.model_name, None)
    \/ NewGeminiEmbeddingProvider(None, defaults.embedding_model)
    \/ \E c \in CallIds, prompt \in Prompts : Generate(c, prompt, Dict(<<>>))
    \/ \E c \in CallIds, ev \in GenerateEvents : GenerateResume(c, ev)
    \/ \E c \in CallIds, text \in Prompts : Embed(c, text)
    \/ \E c \in CallIds, ev \in EmbedEvents : EmbedResume(c, ev)

Spec == Init /\ [][Next]_vars

----------------------------------------------------------------------------
(* SpecConfig: construction under every combination of the key sources.    *)

\* a key source is unset (None), set to the empty string, or set
KeySource(name) == {None, Str(""), Str(name)}

\* one well-formed answer of each endpoint
GenerateAnswer ==
    Response(200, Json(Dict([candidates |-> List(<<Candidate(<<TextPart(Str("Hello"))>>)>>)])))
EmbedAnswer ==
    Response(200, Json(Dict([embedding |-> Dict([values |-> List(<<Float("0.1")>>)])])))

InitConfig ==
    /\ \E g \in KeySource("settings-gemini-key"),
          l \in KeySource("settings-llm-key"),
          e \in KeySource("settings-embedding-key") :
            settings = [GEMINI_API_KEY |-> g,
                        LLM_API_KEY |-> l,
                        EMBEDDING_API_KEY |-> e,
                        LL_MODEL |-> Str("gemini-2.0-flash"),
                        EMBEDDING_MODEL |-> Str("text-embedding-004")]
    /\ environ \in KeySource("env-key")
    /\ defaults = [model_name |-> settings.LL_MODEL,
                   embedding_model |-> settings.EMBEDDING_MODEL]
    /\ gen = NotConstructed
    /\ emb = NotConstructed
    /\ calls = [c \in CallIds |-> Idle]
    /\ order = <<>>

NextConfig ==
    \/ \E k \in KeySource("arg-key") : NewGeminiProvider(k, defaults.model_name, None)
    \/ \E k \in KeySource("arg-key") :
          NewGeminiEmbeddingProvider(k, defaults.embedding_model)
    \/ \E c \in CallIds : Generate(c, Str("Hi"), Dict(<<>>))
    \/ \E c \in CallIds : GenerateResume(c, GenerateAnswer)
    \/ \E c \in CallIds : Embed(c, Str("Hi"))
    \/ \E c \in CallIds : EmbedResume(c, EmbedAnswer)

SpecConfig == InitConfig /\ [][NextConfig]_vars

----------------------------------------------------------------------------
(* SpecOptions: provider-level opts and call-time overrides, every         *)
(* combination of presence for the four recognised keys.                   *)

OptionKeys == {"temperature", "top_p", "top_k", "max_tokens"}

\* the value a provider-level opts dict gives a key it holds
OptsValue ==
    [temperature |-> Float("0.2"), top_p |-> Float("0.5"),
     top_k |-> Num(10), max_tokens |-> Num(256)]

\* the value a call gives a key it overrides
OverrideValue ==
    [temperature |-> Float("0.5"), top_p |-> Float("0.95"),
     top_k |-> Num(1), max_tokens |-> Num(64)]

ProviderOpts ==
    {Dict([k \in K |-> OptsValue[k]]) : K \in SUBSET OptionKeys}
    \cup {None, Dict([temperature |-> None])}

Overrides ==
    {Dict([k \in K |-> OverrideValue[k]]) : K \in SUBSET OptionKeys}
    \cup {Dict([top_k |-> None])}

NextOptions ==
    \/ \E opts \in ProviderOpts : NewGeminiProvider(None, defaults.model_name, opts)
    \/ \E c \in CallIds, args \in Overrides : Generate(c, Str("Hi"), args)
    \/ \E c \in CallIds : GenerateResume(c, GenerateAnswer)

SpecOptions == Init /\ [][NextOptions]_vars

----------------------------------------------------------------------------
(* SpecConcurrent: several coroutines of the same provider objects in      *)
(* flight at once, answered in any order.                                  *)

MaxConcurrent == 2
ConcurrentIds == 1..MaxConcurrent

ConcurrentPrompts == {Str("soft skills"), Str("microservices"), Str("API design")}
ConcurrentOpts == {None, Dict([top_k |-> Num(10)])}
ConcurrentOverrides ==
    {Dict(<<>>), Dict([temperature |-> Float("0.5")]), Dict([top_k |-> Num(1)])}

\* the text a backend that answers each request on its own gives for a prompt
MockOutput(prompt) == Str("echo: " \o PyStr(prompt))

\* the answer of that backend to a generateContent request: it is made from
\* the prompt the request carries
MockAnswer(request) ==
    Response(200, Json(Dict([candidates |-> List(<<Candidate(<<TextPart(
        MockOutput(request.json.v.contents.v[1].v.parts.v[1].v.text))>>)>>)])))

\* the backend did not answer in time
MockTimeout == Fault("ReadTimeout", "")

\* asyncio.gather(*tasks) over the coroutines, in argument order: the first
\* exception raised is propagated; otherwise, once all have ended, the list
\* of their results in the order of the arguments
Gather ==
    LET raised == SelectSeq(order, LAMBDA c : calls[c].outcome.t = "raise") IN
    IF raised # <<>> THEN calls[raised[1]].outcome
    ELSE IF \A c \in DOMAIN calls : calls[c].pc = "done"
    THEN Return(List([c \in DOMAIN calls |-> calls[c].outcome.v]))
    ELSE [t |-> "pending"]

InitConcurrent ==
    /\ settings = [GEMINI_API_KEY |-> Str("settings-gemini-key"),
                   LLM_API_KEY |-> None,
                   EMBEDDING_API_KEY |-> None,
                   LL_MODEL |-> Str("gemini-2.0-flash"),
                   EMBEDDING_MODEL |-> Str("text-embedding-004")]
    /\ environ = None
    /\ defaults = [model_name |-> settings.LL_MODEL,
                   embedding_model |-> settings.EMBEDDING_MODEL]
    /\ gen = NotConstructed
    /\ emb = NotConstructed
    /\ calls = [c \in ConcurrentIds |-> Idle]
    /\ order = <<>>

NextConcurrent ==
    \/ \E opts \in ConcurrentOpts : NewGeminiProvider(None, defaults.model_name, opts)
    \/ NewGeminiEmbeddingProvider(None, defaults.embedding_model)
    \/ \E c \in ConcurrentIds, prompt \in ConcurrentPrompts, args \in ConcurrentOverrides :
          Generate(c, prompt, args)
    \/ \E c \in ConcurrentIds :
          /\ calls[c].pc = "awaiting"
          /\ calls[c].kind = "generate"
          /\ \E ev \in {MockAnswer(calls[c].request), MockTimeout} : GenerateResume(c, ev)
    \/ \E c \in ConcurrentIds : Embed(c, Str("Hi"))
    \/ \E c \in ConcurrentIds, ev \in {EmbedAnswer, MockTimeout} : EmbedResume(c, ev)

SpecConcurrent == InitConcurrent /\ [][NextConcurrent]_vars

----------------------------------------------------------------------------

(* SpecModels: construction under every combination of the model settings  *)
(* and the model arguments.                                                *)

LLModelSettings == {Str("gemini-2.0-flash"), Str("gemini-1.5-pro")}
EmbeddingModelSettings ==
    {Str("text-embedding-004"), Str("embedding-001"), Str("models/embedding-001")}

\* model_name: left out (the default argument), None, empty, or given
ModelNameArgs == {defaults.model_name, None, Str(""), Str("gemini-1.5-flash")}

\* embedding_model: left out (the default argument), None, empty, or given,
\* without the "models/" prefix, with it, and with it twice
EmbeddingModelArgs ==
    {defaults.embedding_model, None, Str(""),
     Str("text-embedding-004"), Str("models/text-embedding-004"),
     Str("embedding-001"), Str("models/embedding-001"),
     Str("models/models/embedding-001")}

InitModels ==
    /\ \E l \in LLModelSettings, e \in EmbeddingModelSettings :
          settings = [GEMINI_API_KEY |-> Str("settings-gemini-key"),
                      LLM_API_KEY |-> None,
                      EMBEDDING_API_KEY |-> None,
                      LL_MODEL |-> l,
                      EMBEDDING_MODEL |-> e]
    /\ environ = None
    /\ defaults = [model_name |-> settings.LL_MODEL,
                   embedding_model |-> settings.EMBEDDING_MODEL]
    /\ gen = NotConstructed
    /\ emb = NotConstructed
    /\ calls = [c \in CallIds |-> Idle]
    /\ order = <<>>

NextModels ==
    \/ \E m \in ModelNameArgs : NewGeminiProvider(None, m, None)
    \/ \E m \in EmbeddingModelArgs : NewGeminiEmbeddingProvider(None, m)
    \/ \E c \in CallIds : Generate(c, Str("Hi"), Dict(<<>>))
    \/ \E c \in CallIds : GenerateResume(c, GenerateAnswer)
    \/ \E c \in CallIds, text \in Prompts : Embed(c, text)
    \/ \E c \in CallIds : EmbedResume(c, EmbedAnswer)

SpecModels == InitModels /\ [][NextModels]_vars

----------------------------------------------------------------------------

(* SpecTimeout: one call with time passing. httpx applies the timeout of   *)
(* the client, AsyncClient(timeout=30.0), to each wait of the exchange on  *)
(* its own: the wait for the connection, and each wait for the next piece  *)
(* of the response. There is no limit on the exchange as a whole.          *)

\* time is not followed beyond MaxElapsed units after the call
MaxElapsed == 61

TimeoutIds == {1}

\* one unit of time passes while call c waits; no time passes once the
\* wait is as long as the timeout, the timer fires first
Tick(c) ==
    /\ calls[c].pc = "awaiting"
    /\ calls[c].clock.waited < ClientTimeout
    /\ calls[c].clock.elapsed < MaxElapsed
    /\ calls' = [calls EXCEPT ![c].clock =
                    [@ EXCEPT !.elapsed = @ + 1, !.waited = @ + 1]]
    /\ UNCHANGED <<settings, environ, defaults, gen, emb, order>>

\* the exchange of call c moves on before its timer fires: the connection
\* is made and the request written, or a piece of the response arrives;
\* the next wait starts from zero
Progress(c) ==
    /\ calls[c].pc = "awaiting"
    /\ calls[c].clock.waited < ClientTimeout
    /\ calls[c].clock.waited > 0 \/ calls[c].clock.phase = "connect"
    /\ calls' = [calls EXCEPT ![c].clock = [@ EXCEPT !.phase = "read", !.waited = 0]]
    /\ UNCHANGED <<settings, environ, defaults, gen, emb, order>>

\* the exception client.post raises when a wait has lasted the timeout
TimeoutFault(phase) ==
    Fault(IF phase = "connect" THEN "ConnectTimeout" ELSE "ReadTimeout", "")

\* the timer of the current wait of call c fires
TimedOut(c) ==
    /\ calls[c].pc = "awaiting"
    /\ calls[c].clock.waited = ClientTimeout
    /\ \/ GenerateResume(c, TimeoutFault(calls[c].clock.phase))
       \/ EmbedResume(c, TimeoutFault(calls[c].clock.phase))

\* the last piece of the response to call c arrives before the timer fires
Answered(c) ==
    /\ calls[c].pc = "awaiting"
    /\ calls[c].clock.phase = "read"
    /\ calls[c].clock.waited < ClientTimeout
    /\ \/ GenerateResume(c, GenerateAnswer)
       \/ EmbedResume(c, EmbedAnswer)

InitTimeout ==
    /\ settings = [GEMINI_API_KEY |-> Str("settings-gemini-key"),
                   LLM_API_KEY |-> None,
                   EMBEDDING_API_KEY |-> None,
                   LL_MODEL |-> Str("gemini-2.0-flash"),
                   EMBEDDING_MODEL |-> Str("text-embedding-004")]
    /\ environ = None
    /\ defaults = [model_name |-> settings.LL_MODEL,
                   embedding_model |-> settings.EMBEDDING_MODEL]
    /\ gen = NotConstructed
    /\ emb = NotConstructed
    /\ calls = [c \in TimeoutIds |-> Idle]
    /\ order = <<>>

NextTimeout ==
    \/ NewGeminiProvider(None, defaults.model_name, None)
    \/ NewGeminiEmbeddingProvider(None, defaults.embedding_model)
    \/ \E c \in TimeoutIds : Generate(c, Str("Hi"), Dict(<<>>))
    \/ \E c \in TimeoutIds : Embed(c, Str("Hi"))
    \/ \E c \in TimeoutIds : Tick(c)
    \/ \E c \in TimeoutIds : Progress(c)
    \/ \E c \in TimeoutIds : TimedOut(c)
    \/ \E c \in TimeoutIds : Answered(c)

SpecTimeout == InitTimeout /\ [][NextTimeout]_vars

----------------------------------------------------------------------------

(* SpecExtraKeys: provider-level opts and call-time overrides that hold    *)
(* keys the code does not know, beside and instead of the four it knows.   *)

\* the value opts gives a key it holds
ExtraOptsValue ==
    [top_k |-> Num(10), seed |-> Num(7), response_format |-> Str("json")]

\* the value a call gives a key it passes
ExtraOverrideValue ==
    [temperature |-> Float("0.5"), seed |-> Num(42),
     stop |-> List(<<Str("END")>>)]

ExtraProviderOpts ==
    {Dict([k \in K |-> ExtraOptsValue[k]]) : K \in SUBSET DOMAIN ExtraOptsValue}
    \cup {None}

ExtraOverrides ==
    {Dict([k \in K |-> ExtraOverrideValue[k]]) : K \in SUBSET DOMAIN ExtraOverrideValue}

NextExtraKeys ==
    \/ \E opts \in ExtraProviderOpts : NewGeminiProvider(None, defaults.model_name, opts)
    \/ \E c \in CallIds, prompt \in Prompts, args \in ExtraOverrides :
          Generate(c, prompt, args)
    \/ \E c \in CallIds : GenerateResume(c, GenerateAnswer)

SpecExtraKeys == Init /\ [][NextExtraKeys]_vars

----------------------------------------------------------------------------

(* SpecSettings: the settings object and the environment change while the  *)
(* providers exist. Both are shared with the rest of the application:      *)
(* settings is the object imported on line 10, the environment is what     *)
(* os.getenv reads.                                                        *)

\* the values an attribute of settings is given
SettingValues ==
    [GEMINI_API_KEY |-> {Str("settings-gemini-key"), Str("rotated-key"), None},
     LLM_API_KEY |-> {None, Str("settings-llm-key")},
     LL_MODEL |-> LLModelSettings]

\* settings.<name> = value, by other code of the application
SetSetting(name, value) ==
    /\ settings[name] # value
    /\ settings' = [settings EXCEPT ![name] = value]
    /\ UNCHANGED <<environ, defaults, gen, emb, calls, order>>

\* os.environ["GEMINI_API_KEY"] is set to value, or deleted (None)
SetEnviron(value) ==
    /\ environ # value
    /\ environ' = value
    /\ UNCHANGED <<settings, defaults, gen, emb, calls, order>>

NextSettings ==
    \/ \E name \in DOMAIN SettingValues :
          \E value \in SettingValues[name] : SetSetting(name, value)
    \/ \E value \in {None, Str("env-key")} : SetEnviron(value)
    \/ \E m \in {defaults.model_name, Str("")} : NewGeminiProvider(None, m, None)
    \/ NewGeminiEmbeddingProvider(None, defaults.embedding_model)
    \/ \E c \in CallIds : Generate(c, Str("Hi"), Dict(<<>>))
    \/ \E c \in CallIds : GenerateResume(c, GenerateAnswer)
    \/ \E c \in CallIds : Embed(c, Str("Hi"))
    \/ \E c \in CallIds : EmbedResume(c, EmbedAnswer)

SpecSettings == Init /\ [][NextSettings]_vars

----------------------------------------------------------------------------

(* SpecLive: the calls under the assumption that an exchange does not stay *)
(* open forever: the backend answers, or client.post raises (a fault, a    *)
(* timeout).                                                               *)

LiveGenerateEvents ==
    {GenerateAnswer,
     Response(200, Raw("")),
     Response(200, Json(Dict([candidates |-> List(<<>>)]))),
     Response(500, Raw("internal error")),
     MockTimeout}

LiveEmbedEvents ==
    {EmbedAnswer,
     Response(200, Json(Dict(<<>>))),
     Response(429, Raw("")),
     MockTimeout}

NextLive ==
    \/ NewGeminiProvider(None, defaults.model_name, None)
    \/ NewGeminiEmbeddingProvider(None, defaults.embedding_model)
    \/ \E c \in ConcurrentIds, prompt \in Prompts : Generate(c, prompt, Dict(<<>>))
    \/ \E c \in ConcurrentIds, ev \in LiveGenerateEvents : GenerateResume(c, ev)
    \/ \E c \in ConcurrentIds, text \in Prompts : Embed(c, text)
    \/ \E c \in ConcurrentIds, ev \in LiveEmbedEvents : EmbedResume(c, ev)

\* client.post of a call in flight ends, one way or another
ExchangeEnds(c) ==
    /\ WF_vars(\E ev \in LiveGenerateEvents : GenerateResume(c, ev))
    /\ WF_vars(\E ev \in LiveEmbedEvents : EmbedResume(c, ev))

SpecLive ==
    InitConcurrent /\ [][NextLive]_vars /\ \A c \in ConcurrentIds : ExchangeEnds(c)

----------------------------------------------------------------------------

(* SpecReload: settings.EMBEDDING_MODEL is assigned between the loading of *)
(* the module, when the default argument of __init__ is evaluated, and the *)
(* construction of the embedding provider.                                 *)

NextReload ==
    \/ \E value \in EmbeddingModelSettings :
          /\ emb.state = "none"
          /\ SetSetting("EMBEDDING_MODEL", value)
    \/ \E m \in {defaults.embedding_model, Str(""), settings.EMBEDDING_MODEL} :
          NewGeminiEmbeddingProvider(None, m)
    \/ \E c \in CallIds, text \in Prompts : Embed(c, text)
    \/ \E c \in CallIds, ev \in {EmbedAnswer, MockTimeout} : EmbedResume(c, ev)

SpecReload == InitModels /\ [][NextReload]_vars

----------------------------------------------------------------------------

(* SpecOrdering: the calls of both providers side by side, with few        *)
(* requests and answers, to look at nothing but their order.               *)

NextOrdering ==
    \/ NewGeminiProvider(None, defaults.model_name, None)
    \/ NewGeminiEmbeddingProvider(None, defaults.embedding_model)
    \/ \E c \in ConcurrentIds : Generate(c, Str("soft skills"), Dict(<<>>))
    \/ \E c \in ConcurrentIds :
          /\ calls[c].pc = "awaiting"
          /\ calls[c].kind = "generate"
          /\ \E ev \in {MockAnswer(calls[c].request), MockTimeout} : GenerateResume(c, ev)
    \/ \E c \in ConcurrentIds, text \in Prompts : Embed(c, text)
    \/ \E c \in ConcurrentIds, ev \in {EmbedAnswer, MockTimeout} : EmbedResume(c, ev)

SpecOrdering == InitConcurrent /\ [][NextOrdering]_vars

----------------------------------------------------------------------------

(* The vendor-call variant of the two providers. Its code is not in the    *)
(* source tree (gemini.py keeps only the import of run_in_threadpool, line *)
(* 6); it is modelled here from its description: the vendor client is      *)
(* called on a worker, every exception of the call becomes ProviderError,  *)
(* and a response whose text is falsy is a failure.                        *)

\* the decoded answer the vendor client works on, if the backend gave one
VendorDocument(ev) ==
    IF ev.t = "response" /\ ev.status \in 200..299
    THEN ResponseJson(ev.body)
    ELSE Err("Exception", "vendor call failed")

\* generate through the vendor client: response.text is the text of the
\* first candidate
VendorGenerateOutcome(ev) ==
    LET doc == VendorDocument(ev)
        r == IF doc.ok
             THEN GetPath(doc.v, <<Key("candidates"), Idx(0), Key("content"),
                                   Key("parts"), Idx(0), Key("text")>>)
             ELSE doc
    IN IF r.ok /\ r.v.t = "str" /\ Truthy(r.v)
       THEN Return(r.v)
       ELSE Raise(ProviderError("Gemini - error generating response"))

\* embed through the vendor client
VendorEmbedOutcome(ev) ==
    LET doc == VendorDocument(ev)
        r == IF doc.ok THEN GetPath(doc.v, <<Key("embedding"), Key("values")>>)
             ELSE doc
    IN IF r.ok THEN Return(r.v)
       ELSE Raise(ProviderError("Gemini - error generating embedding"))

----------------------------------------------------------------------------

(* Properties.                                                             *)

Done(c) == calls[c].pc = "done"
Issued(c) == calls[c].pc # "idle"
RaisedProviderError(c) ==
    calls[c].outcome.t = "raise" /\ calls[c].outcome.exc.cls = "ProviderError"
Returned(c) == calls[c].outcome.t = "return"
Is2xx(ev) == ev.t = "response" /\ ev.status >= 200 /\ ev.status <= 299
Non2xx(ev) == ev.t = "response" /\ ~(ev.status >= 200 /\ ev.status <= 299)

\* C1: every generate and embed call that has ended either returned, and
\* then the exchange gave a 2xx response, or raised ProviderError; no other
\* exception class reaches the caller.
C1_ReturnOrProviderError ==
    \A c \in CallIds :
        Done(c) => \/ Returned(c) /\ Is2xx(calls[c].event)
                   \/ RaisedProviderError(c)

\* a 2xx answer of the wrong JSON shape (a first candidate with no content)
\* ended in ProviderError
C1_Witness ==
    \E c \in CallIds :
        /\ Done(c)
        /\ calls[c].kind = "generate"
        /\ calls[c].event =
             Response(200, Json(Dict([candidates |->
                                        List(<<Dict([finishReason |-> Str("SAFETY")])>>)])))
        /\ RaisedProviderError(c)

\* the hardcoded defaults as the claim gives them
C2_Defaults ==
    [temperature |-> Float("0.0"), top_p |-> Float("0.9"),
     top_k |-> Num(40), max_tokens |-> Num(8192)]

\* the generationConfig field that carries each option key
C2_Field ==
    [temperature |-> "temperature", top_p |-> "topP",
     top_k |-> "topK", max_tokens |-> "maxOutputTokens"]

\* C2: for each of the four recognised keys the value in the request's
\* generationConfig is the call-time override when the call gives the key,
\* else the provider-level opts value when opts holds the key, else the
\* hardcoded default.
C2_OptionPrecedence ==
    \A c \in CallIds :
        (Issued(c) /\ calls[c].kind = "generate") =>
            \A k \in DOMAIN C2_Defaults :
                calls[c].request.json.v.generationConfig.v[C2_Field[k]] =
                    IF k \in DOMAIN calls[c].args.generation_args.v
                    THEN calls[c].args.generation_args.v[k]
                    ELSE IF k \in DOMAIN gen.opts.v
                    THEN gen.opts.v[k]
                    ELSE C2_Defaults[k]

\* opts {temperature: 0.2}, override {temperature: 0.5}: the request carries
\* temperature 0.5 and the default topP 0.9
C2_Witness ==
    \E c \in CallIds :
        /\ Issued(c)
        /\ calls[c].kind = "generate"
        /\ gen.opts = Dict([temperature |-> Float("0.2")])
        /\ calls[c].args.generation_args = Dict([temperature |-> Float("0.5")])
        /\ calls[c].request.json.v.generationConfig.v.temperature = Float("0.5")
        /\ calls[c].request.json.v.generationConfig.v.topP = Float("0.9")

\* a key value that is a non-empty string
NonEmptyKey(k) == k.t = "str" /\ k.v # ""

\* the four key sources of each provider, in the order of precedence
GenKeySources ==
    <<gen.args.api_key, settings.GEMINI_API_KEY, settings.LLM_API_KEY, environ>>
EmbKeySources ==
    <<emb.args.api_key, settings.GEMINI_API_KEY, settings.EMBEDDING_API_KEY, environ>>

AllEmpty(src) == \A i \in 1..Len(src) : ~NonEmptyKey(src[i])

\* C3: with all four key sources empty or absent the constructor raises
\* ProviderError and no request is ever issued for that provider; every
\* constructed provider, and every request issued, holds a non-empty key.
C3_MissingKeyFailsFast ==
    /\ (gen.state # "none" /\ AllEmpty(GenKeySources)) =>
          /\ gen.state = "raised"
          /\ gen.exc.cls = "ProviderError"
          /\ \A c \in CallIds : Issued(c) => calls[c].kind # "generate"
    /\ (emb.state # "none" /\ AllEmpty(EmbKeySources)) =>
          /\ emb.state = "raised"
          /\ emb.exc.cls = "ProviderError"
          /\ \A c \in CallIds : Issued(c) => calls[c].kind # "embed"
    /\ gen.state = "ok" => NonEmptyKey(gen.api_key)
    /\ emb.state = "ok" => NonEmptyKey(emb.api_key)
    /\ \A c \in CallIds : Issued(c) => NonEmptyKey(calls[c].request.params.key)

\* both constructors have raised with every source empty or absent (the
\* environment variable set to the empty string), while nothing was sent
C3_Witness ==
    /\ gen.state = "raised"
    /\ emb.state = "raised"
    /\ gen.args.api_key = Str("")
    /\ environ = Str("")
    /\ AllEmpty(GenKeySources)
    /\ AllEmpty(EmbKeySources)
    /\ \A c \in CallIds : ~Issued(c)

\* the first non-empty value of src, None when there is none
FirstNonEmpty(src) ==
    LET I == {i \in 1..Len(src) : NonEmptyKey(src[i])}
    IN IF I = {} THEN None ELSE src[CHOOSE i \in I : \A j \in I : i <= j]

\* C4: the resolved api_key of either provider is the first non-empty value
\* of: the explicit argument, settings.GEMINI_API_KEY, the settings fallback
\* key, the GEMINI_API_KEY environment variable.
C4_KeyPrecedence ==
    /\ gen.state = "ok" => gen.api_key = FirstNonEmpty(GenKeySources)
    /\ emb.state = "ok" => emb.api_key = FirstNonEmpty(EmbKeySources)
    /\ gen.state = "raised" => FirstNonEmpty(GenKeySources) = None
    /\ emb.state = "raised" => FirstNonEmpty(EmbKeySources) = None

\* an empty explicit argument and an unset settings.GEMINI_API_KEY are
\* skipped; the fallback key wins over the environment variable, and each
\* provider takes its own fallback
C4_Witness ==
    /\ gen.state = "ok"
    /\ emb.state = "ok"
    /\ gen.args.api_key = Str("")
    /\ emb.args.api_key = None
    /\ settings.GEMINI_API_KEY = None
    /\ environ = Str("env-key")
    /\ gen.api_key = Str("settings-llm-key")
    /\ emb.api_key = Str("settings-embedding-key")

\* the decoded body of a 2xx answer is a dict whose "candidates" is a
\* non-empty list and whose first candidate has the text t in its first part
FirstCandidateText(ev, t) ==
    /\ Is2xx(ev)
    /\ ev.body.t = "json"
    /\ ev.body.doc.t = "dict"
    /\ "candidates" \in DOMAIN ev.body.doc.v
    /\ ev.body.doc.v.candidates.t = "list"
    /\ Len(ev.body.doc.v.candidates.v) > 0
    /\ ev.body.doc.v.candidates.v[1] = Candidate(<<TextPart(t)>>)

\* C5 (as claimed): a 2xx answer whose first candidate has the empty string
\* as its text makes generate raise ProviderError, and generate never
\* returns the empty string.
C5_EmptyTextIsFailure ==
    \A c \in CallIds :
        (Done(c) /\ calls[c].kind = "generate") =>
            /\ FirstCandidateText(calls[c].event, Str("")) => RaisedProviderError(c)
            /\ Returned(c) => calls[c].outcome.v # Str("")

\* the decoded body of a 2xx answer has no "candidates" field, or an empty
\* candidates list
NoCandidatesIn(ev) ==
    /\ Is2xx(ev)
    /\ ev.body.t = "json"
    /\ ev.body.doc.t = "dict"
    /\ \/ "candidates" \notin DOMAIN ev.body.doc.v
       \/ ev.body.doc.v.candidates = List(<<>>)

\* C6: a 2xx answer with no "candidates" field or an empty candidates list
\* makes generate raise ProviderError; it returns no value.
C6_NoCandidatesIsFailure ==
    \A c \in CallIds :
        (Done(c) /\ calls[c].kind = "generate" /\ NoCandidatesIn(calls[c].event)) =>
            RaisedProviderError(c)

\* the answer {"candidates": []} has been received and the call has raised
C6_Witness ==
    \E c \in CallIds :
        /\ Done(c)
        /\ calls[c].kind = "generate"
        /\ calls[c].event = Response(200, Json(Dict([candidates |-> List(<<>>)])))
        /\ RaisedProviderError(c)
        /\ Contains(calls[c].outcome.exc.str, "No response from Gemini API")

\* C7 (as claimed): a generate call that returns, returns a text string,
\* never None.
C7_ReturnsString ==
    \A c \in CallIds :
        (Done(c) /\ calls[c].kind = "generate" /\ Returned(c)) =>
            calls[c].outcome.v.t = "str"

\* x is a dict that holds the key k
HasKey(x, k) == x.t = "dict" /\ k \in DOMAIN x.v

\* x is a non-empty list
NonEmptyList(x) == x.t = "list" /\ Len(x.v) > 0

\* the decoded body of ev has candidates[0].content.parts[0].text
HasFirstText(ev) ==
    /\ ev.t = "response"
    /\ ev.body.t = "json"
    /\ HasKey(ev.body.doc, "candidates")
    /\ NonEmptyList(ev.body.doc.v.candidates)
    /\ HasKey(ev.body.doc.v.candidates.v[1], "content")
    /\ HasKey(ev.body.doc.v.candidates.v[1].v.content, "parts")
    /\ NonEmptyList(ev.body.doc.v.candidates.v[1].v.content.v.parts)
    /\ HasKey(ev.body.doc.v.candidates.v[1].v.content.v.parts.v[1], "text")

\* the answer ev with its candidates list cut down to the first candidate
FirstCandidateOnly(ev) ==
    Response(ev.status,
             Json(Dict([candidates |-> List(<<ev.body.doc.v.candidates.v[1]>>)])))

\* C8: a generate call that returns, returns the text of the first part of
\* the first candidate; the call's outcome is the one the same answer gives
\* with every later candidate removed.
C8_FirstCandidateOnly ==
    \A c \in CallIds :
        (Done(c) /\ calls[c].kind = "generate" /\ Returned(c)) =>
            /\ HasFirstText(calls[c].event)
            /\ calls[c].outcome.v =
                 calls[c].event.body.doc.v.candidates.v[1].v.content.v.parts.v[1].v.text
            /\ GenerateOutcome(FirstCandidateOnly(calls[c].event)) = calls[c].outcome

\* a call has returned "Hello", the text of the first of two candidates
\* whose second says "Other"
C8_Witness ==
    \E c \in CallIds :
        /\ Done(c)
        /\ calls[c].kind = "generate"
        /\ calls[c].event =
             Response(200, Json(Dict([candidates |->
                 List(<<Candidate(<<TextPart(Str("Hello"))>>),
                        Candidate(<<TextPart(Str("Other"))>>)>>)])))
        /\ calls[c].outcome = Return(Str("Hello"))

\* C9: an answer whose status is not 2xx makes generate and embed raise
\* ProviderError with a message that contains the status code and the body
\* text; nothing is returned from such an answer.
C9_StatusErrorMessage ==
    \A c \in CallIds :
        (Done(c) /\ Non2xx(calls[c].event)) =>
            /\ RaisedProviderError(c)
            /\ Contains(calls[c].outcome.exc.str, ToString(calls[c].event.status))
            /\ Contains(calls[c].outcome.exc.str, ResponseText(calls[c].event.body))

\* HTTP 500 with the body "internal error" has been turned into a
\* ProviderError naming both
C9_Witness ==
    \E c \in CallIds :
        /\ Done(c)
        /\ calls[c].kind = "generate"
        /\ calls[c].event = Response(500, Raw("internal error"))
        /\ calls[c].outcome = Raise(ProviderError("Gemini API HTTP 500: internal error"))

\* C10: a connection-level fault of the request makes generate and embed
\* raise ProviderError with a message that contains the fault's description.
C10_FaultMessage ==
    \A c \in CallIds :
        (Done(c) /\ calls[c].event.t = "fault") =>
            /\ RaisedProviderError(c)
            /\ Contains(calls[c].outcome.exc.str, calls[c].event.exc.str)

\* a refused connection has been turned into a ProviderError that quotes it
C10_Witness ==
    \E c \in CallIds :
        /\ Done(c)
        /\ calls[c].kind = "generate"
        /\ calls[c].event = Fault("ConnectError", "[Errno 111] Connection refused")
        /\ calls[c].outcome =
             Raise(ProviderError("Gemini API request error: [Errno 111] Connection refused"))

\* C11: a generate or embed call issues exactly one request over its whole
\* life: whatever the exchange ended in (a status error, a connection fault,
\* a malformed or empty answer), the call has awaited client.post once.
C11_SingleRequest ==
    \A c \in DOMAIN calls :
        Issued(c) => calls[c].posts = 1

\* a call whose connection was refused has ended without a second request
C11_Witness ==
    \E c \in DOMAIN calls :
        /\ Done(c)
        /\ calls[c].event.t = "fault"
        /\ RaisedProviderError(c)
        /\ calls[c].posts = 1

\* the decoded body of ev is an object with an "embedding" object that has
\* a "values" member
HasEmbeddingValues(ev) ==
    /\ ev.t = "response"
    /\ ev.body.t = "json"
    /\ HasKey(ev.body.doc, "embedding")
    /\ HasKey(ev.body.doc.v.embedding, "values")

\* C12: an embed call answered 2xx with a body that has embedding.values
\* returns that value as it came, of any length; answered 2xx with a body
\* that lacks "embedding" or its "values" it raises ProviderError and
\* returns nothing.
C12_EmbeddingValues ==
    \A c \in DOMAIN calls :
        (Done(c) /\ calls[c].kind = "embed" /\ Is2xx(calls[c].event)) =>
            IF HasEmbeddingValues(calls[c].event)
            THEN calls[c].outcome = Return(calls[c].event.body.doc.v.embedding.v.values)
            ELSE RaisedProviderError(c)

\* a three-element vector has been returned as it came
C12_Witness ==
    \E c \in DOMAIN calls :
        /\ Done(c)
        /\ calls[c].kind = "embed"
        /\ calls[c].event =
             Response(200, Json(Dict([embedding |-> Dict([values |->
                 List(<<Float("0.1"), Float("-0.2"), Float("0.3")>>)])])))
        /\ calls[c].outcome =
             Return(List(<<Float("0.1"), Float("-0.2"), Float("0.3")>>))

\* C13: generate calls in flight together on one provider, answered after
\* any delays and in any order by a backend that answers each request on
\* its own, each return the answer to their own prompt; when all have
\* returned, the gathered result is the list of those answers, one per
\* call, in the order of the calls and not in the order they ended.
C13_OwnAnswerInOrder ==
    /\ \A c \in DOMAIN calls :
          (Done(c) /\ calls[c].kind = "generate" /\ calls[c].event.t = "response") =>
              calls[c].outcome = Return(MockOutput(calls[c].args.prompt))
    /\ (\A c \in DOMAIN calls : Done(c) /\ calls[c].kind = "generate" /\ Returned(c)) =>
          /\ Gather = Return(List([c \in DOMAIN calls |->
                                      MockOutput(calls[c].args.prompt)]))
          /\ Len(Gather.v.v) = Cardinality(DOMAIN calls)

\* two calls with different prompts were in flight together, the second
\* was answered first, and the gathered list has the first call's answer
\* first
C13_Witness ==
    /\ calls[1].pc = "done" /\ calls[2].pc = "done"
    /\ calls[1].kind = "generate" /\ calls[2].kind = "generate"
    /\ calls[1].args.prompt = Str("soft skills")
    /\ calls[2].args.prompt = Str("microservices")
    /\ SubSeq(order, 1, 2) = <<2, 1>>
    /\ calls[1].outcome = Return(Str("echo: soft skills"))
    /\ calls[2].outcome = Return(Str("echo: microservices"))
    /\ Gather = Return(List(<<Str("echo: soft skills"), Str("echo: microservices")>>))

\* the request of call c is the one the provider's fields give for the
\* call's own arguments
ObservesConfig(c) ==
    IF calls[c].kind = "generate"
    THEN calls[c].request =
           PostRequest(GenerateUrl(gen),
                       GenerationPayload(calls[c].args.prompt,
                                         MergeOptions(gen.opts,
                                                      calls[c].args.generation_args)),
                       gen.api_key)
    ELSE calls[c].request =
           PostRequest(EmbedUrl(emb), EmbeddingPayload(emb, calls[c].args.text),
                       emb.api_key)

\* C14: once a provider is constructed none of its fields (api_key, model
\* name, opts, base url) changes in any step, whatever calls begin or end
\* and however they interleave; the request of every call, then and later,
\* is the one the fields set at construction give.
C14_ConfigNeverChanges ==
    [][/\ gen.state = "ok" => gen' = gen
       /\ emb.state = "ok" => emb' = emb
       /\ \A c \in DOMAIN calls : (calls'[c].pc # "idle") => ObservesConfig(c)']_vars

\* a provider constructed with opts has had a call with an override fail
\* and another call with no override in flight, and still holds its opts
C14_Witness ==
    /\ gen.state = "ok"
    /\ gen.opts = Dict([top_k |-> Num(10)])
    /\ \E c, d \in DOMAIN calls :
          /\ Done(c)
          /\ calls[c].kind = "generate"
          /\ calls[c].args.generation_args = Dict([temperature |-> Float("0.5")])
          /\ calls[c].outcome.t = "raise"
          /\ calls[d].pc = "awaiting"
          /\ calls[d].kind = "generate"
          /\ calls[d].args.generation_args = Dict(<<>>)
          /\ calls[d].request.json.v.generationConfig.v.temperature = Float("0.0")
          /\ calls[d].request.json.v.generationConfig.v.topK = Num(10)

\* a model id without its leading "models/", if it has one
BaseModelId(m) ==
    IF StartsWith(m.v, "models/") THEN SubSeq(m.v, 8, Len(m.v)) ELSE m.v

\* C15: an embedding provider constructed with a model id, given with or
\* without the "models/" prefix, sends its requests to /models/m:embedContent
\* with the payload model "models/m", m being the id without the prefix; so
\* the two forms of an id give the same request.
C15_PrefixMakesNoDifference ==
    \A c \in DOMAIN calls :
        (Issued(c) /\ calls[c].kind = "embed" /\ Truthy(emb.args.embedding_model)) =>
            LET m == BaseModelId(emb.args.embedding_model) IN
                /\ calls[c].request.url = BaseUrl \o "/models/" \o m \o ":embedContent"
                /\ calls[c].request.json.v.model = Str("models/" \o m)

\* the calls whose HTTP client is open, and the calls in flight
OpenClients == {c \in DOMAIN calls : Issued(c) /\ calls[c].client = "open"}
InFlight == {c \in DOMAIN calls : calls[c].pc = "awaiting"}

\* C17: every call opens a client of its own and closes it however it
\* ends: the calls with an open client are exactly the calls in flight, so
\* there are as many open clients as calls in flight, and a call that has
\* returned or raised has closed its client.
C17_ClientPerCall ==
    /\ OpenClients = InFlight
    /\ Cardinality(OpenClients) = Cardinality(InFlight)
    /\ \A c \in DOMAIN calls : Done(c) => calls[c].client = "closed"

\* one call has raised after a timeout and closed its client while another
\* is still in flight with its client open
C17_Witness ==
    \E c, d \in DOMAIN calls :
        /\ Done(c)
        /\ calls[c].event = MockTimeout
        /\ RaisedProviderError(c)
        /\ calls[c].client = "closed"
        /\ calls[d].pc = "awaiting"
        /\ calls[d].client = "open"
        /\ Cardinality(OpenClients) = 1

\* C18: the model a provider uses is the model argument when one is given
\* and is not empty, and otherwise the setting: settings.LL_MODEL for
\* GeminiProvider, settings.EMBEDDING_MODEL for GeminiEmbeddingProvider (a
\* leading "models/" apart).
C18_EffectiveModel ==
    /\ gen.state = "ok" =>
          gen.model_name = IF Truthy(gen.args.model_name)
                           THEN gen.args.model_name ELSE settings.LL_MODEL
    /\ emb.state = "ok" =>
          emb.model.v = BaseModelId(IF Truthy(emb.args.embedding_model)
                                    THEN emb.args.embedding_model
                                    ELSE settings.EMBEDDING_MODEL)

\* C19: every request embed sends has taskType "RETRIEVAL_DOCUMENT",
\* whatever the text, the embedding model argument and the settings are.
C19_TaskTypeFixed ==
    \A c \in DOMAIN calls :
        (Issued(c) /\ calls[c].kind = "embed") =>
            calls[c].request.json.v.taskType = Str("RETRIEVAL_DOCUMENT")

\* a provider constructed with another model than the default has sent the
\* empty text tagged as a document
C19_Witness ==
    \E c \in DOMAIN calls :
        /\ Issued(c)
        /\ calls[c].kind = "embed"
        /\ emb.args.embedding_model = Str("models/embedding-001")
        /\ emb.model = Str("embedding-001")
        /\ calls[c].args.text = Str("")
        /\ calls[c].request.json.v.taskType = Str("RETRIEVAL_DOCUMENT")

C16_TimeoutPerCall ==
    \A c \in DOMAIN calls :
        /\ calls[c].pc = "awaiting" => calls[c].clock.elapsed <= ClientTimeout
        /\ (Done(c) /\ calls[c].clock.elapsed > ClientTimeout) => RaisedProviderError(c)

\* the dict d without the keys that are not among the four recognised ones
RecognisedOnly(d) ==
    Dict([k \in DOMAIN d.v \cap DOMAIN HardcodedDefaults |-> d.v[k]])

\* C21: keys of opts and of the overrides other than the four recognised
\* ones stop no call and reach no request: a call is issued all the same,
\* its generationConfig has the four keys temperature, topP, topK and
\* maxOutputTokens and no other, and the whole request is the one the same
\* opts and overrides give with the unrecognised keys taken out.
C21_UnrecognisedKeysIgnored ==
    \A c \in DOMAIN calls :
        (Issued(c) /\ calls[c].kind = "generate") =>
            /\ DOMAIN calls[c].request.json.v = {"contents", "generationConfig"}
            /\ DOMAIN calls[c].request.json.v.generationConfig.v =
                 {"temperature", "topP", "topK", "maxOutputTokens"}
            /\ calls[c].request =
                 PostRequest(GenerateUrl(gen),
                             GenerationPayload(
                                 calls[c].args.prompt,
                                 MergeOptions(RecognisedOnly(gen.opts),
                                              RecognisedOnly(calls[c].args.generation_args))),
                             gen.api_key)

\* a provider whose opts hold top_k and two unknown keys has been called
\* with temperature and two unknown overrides, and the call has returned
C21_Witness ==
    \E c \in DOMAIN calls :
        /\ Done(c)
        /\ Returned(c)
        /\ gen.opts = Dict([top_k |-> Num(10), seed |-> Num(7),
                            response_format |-> Str("json")])
        /\ calls[c].args.generation_args =
             Dict([temperature |-> Float("0.5"), seed |-> Num(42),
                   stop |-> List(<<Str("END")>>)])
        /\ calls[c].request.json.v.generationConfig =
             Dict([temperature |-> Float("0.5"), topP |-> Float("0.9"),
                   topK |-> Num(10), maxOutputTokens |-> Num(8192)])

\* the request of call c carries the key and the model its provider holds
CarriesProviderFields(c) ==
    IF calls[c].kind = "generate"
    THEN /\ calls[c].request.params = [key |-> gen.api_key]
         /\ calls[c].request.url = GenerateUrl(gen)
    ELSE /\ calls[c].request.params = [key |-> emb.api_key]
         /\ calls[c].request.url = EmbedUrl(emb)
         /\ calls[c].request.json.v.model = Str("models/" \o PyStr(emb.model))

\* C22: the settings and the environment are read by the constructors
\* only: a step that changes a setting or the environment variable changes
\* no provider and no request, and a call issued at any time carries the
\* key and the model its provider was given at construction.
C22_ReadAtConstructionOnly ==
    [][/\ (settings' # settings \/ environ' # environ) =>
             (gen' = gen /\ emb' = emb /\ calls' = calls)
       /\ (gen.state # "none" => gen' = gen)
       /\ (emb.state # "none" => emb' = emb)
       /\ \A c \in DOMAIN calls :
             (calls[c].pc = "idle" /\ calls'[c].pc # "idle") => CarriesProviderFields(c)'
       /\ \A c \in DOMAIN calls :
             calls[c].pc # "idle" => calls'[c].request = calls[c].request]_vars

\* a provider holds the key and the model it was constructed with although
\* the settings now give another key and another model, and a call of it
\* carries the provider's
C22_Witness ==
    \E c \in DOMAIN calls :
        /\ gen.state = "ok"
        /\ gen.args.model_name = Str("")
        /\ gen.api_key = Str("settings-gemini-key")
        /\ gen.model_name = Str("gemini-2.0-flash")
        /\ settings.GEMINI_API_KEY = Str("rotated-key")
        /\ settings.LL_MODEL = Str("gemini-1.5-pro")
        /\ Issued(c)
        /\ calls[c].kind = "generate"
        /\ calls[c].request.params.key = Str("settings-gemini-key")
        /\ calls[c].request.url = BaseUrl \o "/models/gemini-2.0-flash:generateContent"

\* C23: every call that has been issued ends, by returning a value or by
\* raising ProviderError, provided its exchange ends (the backend answers,
\* or client.post raises a fault or a timeout): no call is in flight for
\* ever.
C23_EveryCallEnds ==
    \A c \in ConcurrentIds :
        (calls[c].pc = "awaiting") ~>
            (Done(c) /\ (Returned(c) \/ RaisedProviderError(c)))

\* a call whose exchange timed out has ended
C23_Witness ==
    \E c \in ConcurrentIds :
        /\ Done(c)
        /\ calls[c].kind = "embed"
        /\ calls[c].event = MockTimeout
        /\ calls[c].outcome =
             Raise(ProviderError("Gemini embedding request error: "))

\* C24: nothing orders independent calls. A call not yet begun can issue
\* its request whatever the other calls are doing, also while requests of
\* the same provider or of the other provider are out; a call in flight
\* can end whether or not the calls begun before it have ended.
C24_NoOrderingImposed ==
    \A c \in DOMAIN calls :
        /\ (calls[c].pc = "idle" /\ gen.state = "ok") =>
              ENABLED Generate(c, Str("soft skills"), Dict(<<>>))
        /\ (calls[c].pc = "idle" /\ emb.state = "ok") =>
              ENABLED Embed(c, Str("Hi"))
        /\ (calls[c].pc = "awaiting" /\ calls[c].kind = "generate") =>
              ENABLED GenerateResume(c, MockAnswer(calls[c].request))
        /\ (calls[c].pc = "awaiting" /\ calls[c].kind = "embed") =>
              ENABLED EmbedResume(c, EmbedAnswer)

\* the requests of two calls of the same provider are out at the same time:
\* neither call waited for the other to end
C24_Witness ==
    /\ calls[1].pc = "awaiting"
    /\ calls[1].kind = "generate"
    /\ calls[2].pc = "awaiting"
    /\ calls[2].kind = "generate"
    /\ order = <<>>

\* two outcomes the caller cannot tell apart: the same value returned, or
\* ProviderError raised by both
SameOutcome(a, b) ==
    \/ a.t = "return" /\ b.t = "return" /\ a.v = b.v
    \/ /\ a.t = "raise" /\ b.t = "raise"
       /\ a.exc.cls = "ProviderError" /\ b.exc.cls = "ProviderError"

\* C25: the direct-wire variant and the vendor-call variant give the
\* caller the same outcome for the same request and the same answer of the
\* backend: the same text or vector returned, or ProviderError from both.
C25_VariantsInterchangeable ==
    \A c \in DOMAIN calls :
        Done(c) =>
            SameOutcome(calls[c].outcome,
                        IF calls[c].kind = "generate"
                        THEN VendorGenerateOutcome(calls[c].event)
                        ELSE VendorEmbedOutcome(calls[c].event))

\* a 2xx answer whose body is not of the expected shape: it does not
\* decode, or what it decodes to has no candidates[0].content.parts[0].text
MalformedAnswer(ev) == Is2xx(ev) /\ ~HasFirstText(ev)

\* C26: a 2xx answer whose body is not of the expected shape makes generate
\* raise ProviderError, as a transport failure does: no KeyError,
\* IndexError, TypeError or decoding error reaches the caller, and nothing
\* is returned.
C26_MalformedIsProviderError ==
    \A c \in DOMAIN calls :
        (Done(c) /\ calls[c].kind = "generate" /\ MalformedAnswer(calls[c].event)) =>
            /\ calls[c].outcome.t = "raise"
            /\ calls[c].outcome.exc.cls = "ProviderError"
            /\ calls[c].outcome.exc.cls =
                 GenerateOutcome(Fault("ConnectError",
                                       "[Errno 111] Connection refused")).exc.cls

\* a 200 answer whose body is an HTML page, not JSON, ended in ProviderError
C26_Witness ==
    \E c \in DOMAIN calls :
        /\ Done(c)
        /\ calls[c].kind = "generate"
        /\ calls[c].event = Response(200, Raw("<html>Bad Gateway</html>"))
        /\ calls[c].outcome =
             Raise(ProviderError(
                 "Gemini API error: Expecting value: line 1 column 1 (char 0)"))

\* C27: the model id an embedding provider stores never starts with
\* "models/", whatever string it was constructed with; so the URL of every
\* embedding request has one "models/" segment before the id, and the
\* payload's model one "models/" prefix.
C27_StoredIdHasNoPrefix ==
    /\ emb.state = "ok" => ~StartsWith(emb.model.v, "models/")
    /\ \A c \in DOMAIN calls :
          (Issued(c) /\ calls[c].kind = "embed") =>
              /\ ~StartsWith(calls[c].request.url, BaseUrl \o "/models/models/")
              /\ ~StartsWith(calls[c].request.json.v.model.v, "models/models/")

\* C28: an embedding provider constructed with the embedding_model argument
\* left out, empty, or equal to settings.EMBEDDING_MODEL as it is at
\* construction, uses "text-embedding-004" in every request, also when the
\* setting was assigned after the module was loaded.
C28_DefaultIsTextEmbedding004 ==
    (/\ emb.state = "ok"
     /\ \/ emb.args.embedding_model = defaults.embedding_model
        \/ ~Truthy(emb.args.embedding_model)
        \/ emb.args.embedding_model = settings.EMBEDDING_MODEL) =>
        /\ emb.model = Str("text-embedding-004")
        /\ \A c \in DOMAIN calls :
              (Issued(c) /\ calls[c].kind = "embed") =>
                  /\ calls[c].request.url =
                       BaseUrl \o "/models/text-embedding-004:embedContent"
                  /\ calls[c].request.json.v.model = Str("models/text-embedding-004")

\* the value call c sends for the option key k under the name sent
SentOption(c, sent) == calls[c].request.json.v.generationConfig.v[sent]

\* the value that the overrides of call c alone, then the provider's opts,
\* then the hardcoded defaults give the option key k
OwnOption(c, k) ==
    IF k \in DOMAIN calls[c].args.generation_args.v
    THEN calls[c].args.generation_args.v[k]
    ELSE IF k \in DOMAIN gen.opts.v THEN gen.opts.v[k]
    ELSE HardcodedDefaults[k]

\* C29: the overrides of a call reach that call's request and no other:
\* whatever calls went before or are in flight beside it, and whatever they
\* passed, each request carries for every option the call's own override if
\* it passed one, and otherwise the provider's or the default value.
C29_OverridesStayInTheirCall ==
    \A c \in DOMAIN calls :
        (Issued(c) /\ calls[c].kind = "generate") =>
            /\ SentOption(c, "temperature") = OwnOption(c, "temperature")
            /\ SentOption(c, "topP") = OwnOption(c, "top_p")
            /\ SentOption(c, "topK") = OwnOption(c, "top_k")
            /\ SentOption(c, "maxOutputTokens") = OwnOption(c, "max_tokens")

\* two calls in flight together passed different overrides and a third
\* party's value is in neither request: the one that set temperature sends
\* the provider's top_k, the one that set top_k sends the default
\* temperature
C29_Witness ==
    /\ gen.state = "ok"
    /\ gen.opts = Dict([top_k |-> Num(10)])
    /\ calls[1].pc = "awaiting" /\ calls[2].pc = "awaiting"
    /\ calls[1].kind = "generate" /\ calls[2].kind = "generate"
    /\ calls[1].args.generation_args = Dict([temperature |-> Float("0.5")])
    /\ calls[2].args.generation_args = Dict([top_k |-> Num(1)])
    /\ SentOption(1, "temperature") = Float("0.5")
    /\ SentOption(1, "topK") = Num(10)
    /\ SentOption(2, "temperature") = Float("0.0")
    /\ SentOption(2, "topK") = Num(1)

\* some call has ended by raising
SomeCallFailed ==
    \E d \in DOMAIN calls : calls[d].pc = "done" /\ calls[d].outcome.t = "raise"

\* what a provider that has just been constructed gives call c for the
\* answer its exchange ended with
FreshOutcome(c) ==
    IF calls[c].event = MockTimeout
    THEN Raise(ProviderError(IF calls[c].kind = "generate"
                             THEN "Gemini API request error: "
                             ELSE "Gemini embedding request error: "))
    ELSE IF calls[c].kind = "generate"
    THEN Return(MockOutput(calls[c].args.prompt))
    ELSE Return(List(<<Float("0.1")>>))

\* C30: a failed call leaves its provider as it was and fit for use: in
\* every step taken after some call has raised, the providers keep their
\* fields, a call that begins issues one request of its own, the request a
\* newly constructed provider would send for its arguments, and a call that
\* ends has the outcome that its own answer gives on a new provider.
C30_UsableAfterFailure ==
    [][SomeCallFailed =>
          /\ (gen.state = "ok" => gen' = gen)
          /\ (emb.state = "ok" => emb' = emb)
          /\ \A c \in DOMAIN calls :
                /\ (calls[c].pc = "idle" /\ calls'[c].pc # "idle") =>
                      /\ calls'[c].pc = "awaiting"
                      /\ calls'[c].posts = 1
                      /\ calls'[c].client = "open"
                      /\ ObservesConfig(c)'
                /\ (calls[c].pc = "awaiting" /\ calls'[c].pc # "awaiting") =>
                      /\ calls'[c].pc = "done"
                      /\ calls'[c].outcome = FreshOutcome(c)']_vars

\* the first call to end raised after a timeout; the second ended after it
\* and returned the answer to its own prompt
C30_Witness ==
    /\ Len(order) >= 2
    /\ order[1] = 1
    /\ order[2] = 2
    /\ calls[1].kind = "generate"
    /\ calls[1].event = MockTimeout
    /\ RaisedProviderError(1)
    /\ calls[2].kind = "generate"
    /\ calls[2].outcome = Return(MockOutput(calls[2].args.prompt))

=============================================================================
